---- MODULE Spec2Model ----
(***************************************************************************)
(* PulmoScan AI: the diagnosis orchestration pipeline.                     *)
(*                                                                         *)
(* Server side (src/unnamed/part_007, the Node.js backend): the            *)
(* POST /api/diagnose handler with its multer upload middleware, the call  *)
(* to the Python inference API, the ScanRecord insert and the response.    *)
(* The ScanRecord collection with the endpoints that read and delete it:   *)
(* GET /api/history, GET /api/analytics, DELETE /api/history/:scanId.      *)
(* Each request is a logical task that advances from one await to the      *)
(* next; tasks interleave at the awaits and share only the record store.   *)
(*                                                                         *)
(* Client side (ScanUploader.tsx, DiagnosisContext): the session context,  *)
(* the routes of the four-stage workflow, the Processing component and     *)
(* the orchestration calls it leaves in flight.                            *)
(***************************************************************************)
EXTENDS Integers, Sequences, FiniteSets, TLC

VARIABLES
    \* ---- server ----
    pc,         \* pc[r]: where request r of POST /api/diagnose stands
    input,      \* input[r]: the multipart request (image part, patientData field)
    aiResult,   \* aiResult[r]: response.data of the Python API call
    scanId,     \* scanId[r]: the uuid drawn at line 215 (0: none drawn)
    status,     \* status[r]: HTTP status answered (0: not answered yet)
    body,       \* body[r]: JSON body answered
    gwCalls,    \* gwCalls[r]: calls of callPythonAPI made for request r
    gwErr,      \* gwErr[r]: error code of the rejected gateway call ("none": no rejection)
    inserts,    \* inserts[r]: ScanRecord.create calls of r that succeeded
    store,      \* the ScanRecord collection, in insertion order
    nextId,     \* source of fresh uuids
    now,        \* Date.now() of the server, in milliseconds since it started
    createdAt,  \* createdAt[r]: createdAt default of the document built for request r
    removed,    \* scanIds of stored records a DELETE was answered { success } for (bookkeeping)
    del,        \* the last DELETE /api/history/:scanId request and its answer
    hist,       \* the GET /api/history request in progress or last answered
    ana,        \* the GET /api/analytics request in progress or last answered
    \* ---- client ----
    route,            \* current path of the router
    patientData,      \* DiagnosisContext.patientData
    scanData,         \* DiagnosisContext.scanData
    diagnosisResult,  \* DiagnosisContext.diagnosisResult
    upl,              \* local state of the mounted ScanUploader
    proc,             \* local state of the mounted ProcessingAnimation
    calls,            \* submitDiagnosis promises not settled yet
    navTimers,        \* pending setTimeout(() => navigate('/results'), 500)
    issued,           \* number of orchestration calls issued so far
    sessionGen        \* number of resetDiagnosis calls so far (bookkeeping)

apiVars == <<removed, del, hist, ana>>
serverVars == <<pc, input, aiResult, scanId, status, body, gwCalls, gwErr, inserts, store, nextId,
                now, createdAt, apiVars>>
clientVars == <<route, patientData, scanData, diagnosisResult, upl, proc, calls,
                navTimers, issued, sessionGen>>
vars == <<serverVars, clientVars>>

----------------------------------------------------------------------------
(* Bounds of the model *)

\* number of POST /api/diagnose requests
MaxReq == 1
\* number of orchestration calls one browser session issues
MaxCalls == 2
\* number of session resets
MaxResets == 1

Reqs == 1..MaxReq

\* number of POST /api/diagnose requests running next to the history endpoints
MaxPosts == 2
\* last tick of the server's clock
MaxClock == 1
\* the milliseconds of the progress timeline that are followed
MaxElapsed == 5500

Posts == 1..MaxPosts

\* every request the model keeps state for
AllReqs == Reqs \cup Posts

----------------------------------------------------------------------------
(* JavaScript values *)

Undefined == "undefined"
JsTrue == "true"
JsFalse == "false"

\* JavaScript truthiness of the scalar values the model uses
Truthy(v) == v \notin {Undefined, JsFalse, ""}

\* a || b
JsOr(a, b) == IF Truthy(a) THEN a ELSE b

----------------------------------------------------------------------------
(* Server: data *)

\* MAX_FILE_SIZE_MB default
MAX_MB == 10

\* limits.fileSize of the multer instance, in bytes
FileSizeLimit == MAX_MB * 1024 * 1024

\* the disease labels, in canonical order
ClassOrder == <<"Normal", "Pneumonia", "COVID-19", "Lung Opacity", "Tuberculosis">>
Classes == {ClassOrder[i] : i \in 1..Len(ClassOrder)}

Severities == {"Low", "Medium", "High"}

\* media types a client may send
MimeTypes == {"image/jpeg", "image/png", "image/webp", "application/pdf", "image/gif"}

\* byte sizes of the image part: small, exactly at the limit, one byte above it
FileSizes == {1024, FileSizeLimit, FileSizeLimit + 1}

NoFile == [present |-> FALSE, mimetype |-> Undefined, size |-> 0]
Files == {NoFile} \cup
         {[present |-> TRUE, mimetype |-> m, size |-> s] : m \in MimeTypes, s \in FileSizes}

\* texts of the patientData form field: absent, empty, a JSON object, JSON null, broken JSON
PatientObjectText == "{\"fullName\":\"A\",\"age\":40}"
BrokenJsonText == "{\"fullName\":"
PatientTexts == {Undefined, "", PatientObjectText, "null", BrokenJsonText}

\* JSON.parse on the texts above: the parsed value, or a SyntaxError
JsonParse(text) ==
    CASE text = PatientObjectText -> [ok |-> TRUE, value |-> "patientObject"]
      [] text = "null"            -> [ok |-> TRUE, value |-> "null"]
      [] OTHER                    -> [ok |-> FALSE, value |-> Undefined]

AllInputs == {[file |-> f, patientData |-> t] : f \in Files, t \in PatientTexts}

NoInput == [file |-> NoFile, patientData |-> Undefined]

\* probability distributions, in percent
Peaked(c) == [k \in Classes |-> IF k = c THEN 80 ELSE 5]
TieDist == [k \in Classes |-> IF k \in {"Pneumonia", "Tuberculosis"} THEN 35 ELSE 10]
ProbDists == {Peaked(c) : c \in Classes} \cup {TieDist}

\* a payload without the probabilities field
NoProbabilities == [k \in {} |-> 0]

\* the class of greatest probability, the first in canonical order among equals
ArgMax(p) ==
    LET best == CHOOSE i \in 1..Len(ClassOrder) :
                    /\ \A j \in 1..Len(ClassOrder) : p[ClassOrder[j]] <= p[ClassOrder[i]]
                    /\ \A j \in 1..(i - 1) : p[ClassOrder[j]] < p[ClassOrder[i]]
    IN  ClassOrder[best]

Payload(cls, conf, sev, probs, dm) ==
    [kind |-> "object", predicted_class |-> cls, confidence |-> conf, severity |-> sev,
     probabilities |-> probs, affected_regions |-> <<"Right lower lobe">>,
     recommendations |-> <<"Consult a pulmonologist">>, demo_mode |-> dm]

\* a JSON body that is the literal null
NullPayload == [kind |-> "null", predicted_class |-> Undefined, confidence |-> 0,
                severity |-> Undefined, probabilities |-> NoProbabilities,
                affected_regions |-> <<>>, recommendations |-> <<>>, demo_mode |-> Undefined]

NoPayload == [kind |-> "none", predicted_class |-> Undefined, confidence |-> 0,
              severity |-> Undefined, probabilities |-> NoProbabilities,
              affected_regions |-> <<>>, recommendations |-> <<>>, demo_mode |-> Undefined]

\* the inference gateway's contract: every required field present, the predicted
\* class the maximum of the distribution, severity and demo_mode optional
WellFormed(d) ==
    /\ d.kind = "object"
    /\ d.predicted_class \in Classes
    /\ DOMAIN d.probabilities = Classes
    /\ d.predicted_class = ArgMax(d.probabilities)
    /\ d.confidence = d.probabilities[d.predicted_class]
    /\ d.severity \in Severities \cup {Undefined}
    /\ d.demo_mode \in {JsTrue, JsFalse, Undefined}

\* bodies the gateway sends when it works as specified
GatewayWellFormed ==
    {Payload(ArgMax(p), p[ArgMax(p)], sev, p, dm) :
        p \in ProbDists, sev \in Severities \cup {Undefined},
        dm \in {JsTrue, JsFalse, Undefined}}

\* bodies that break the contract: a field missing, the class not the maximum, null
GatewayMalformed ==
    { Payload(Undefined, 80, "Medium", Peaked("Pneumonia"), JsFalse),
      Payload(Undefined, 80, Undefined, Peaked("Pneumonia"), JsFalse),
      Payload("Pneumonia", 80, Undefined, NoProbabilities, JsFalse),
      Payload("Normal", 5, Undefined, Peaked("Tuberculosis"), JsTrue),
      NullPayload }

\* ways the axios call rejects: connection refused, the 60 s timeout, a non-2xx status
GatewayErrors == {"ECONNREFUSED", "ECONNABORTED", "ERR_BAD_RESPONSE"}

Resolve(d) == [ok |-> TRUE, err |-> "none", data |-> d]
Reject(e) == [ok |-> FALSE, err |-> e, data |-> NoPayload]

AllOutcomes == {Resolve(d) : d \in GatewayWellFormed \cup GatewayMalformed}
               \cup {Reject(e) : e \in GatewayErrors}

----------------------------------------------------------------------------
(* Server: the pure parts of POST /api/diagnose *)

\* the `allowed` list of the multer fileFilter
AllowedMimeTypes == {"image/jpeg", "image/png", "image/webp"}

fileFilter(file) == file.mimetype \in AllowedMimeTypes

\* upload.single('image'): what multer hands on. The file filter runs when the
\* part's header arrives, the size limit trips while its bytes are read.
Multer(file) ==
    IF ~file.present THEN [err |-> "none", code |-> Undefined]
    ELSE IF ~fileFilter(file) THEN [err |-> "Error", code |-> Undefined]
    ELSE IF file.size > FileSizeLimit THEN [err |-> "MulterError", code |-> "LIMIT_FILE_SIZE"]
    ELSE [err |-> "none", code |-> Undefined]

\* variant: the handler without its LIMIT_FILE_SIZE case
ErrorHandler_NoSizeCase(code) == 500

\* the error-handling middleware: status answered for an error passed to next()
ErrorHandler(code) == IF code = "LIMIT_FILE_SIZE" THEN 413 ELSE 500

\* the patient object the handler builds from req.body.patientData
ParsePatient(text) ==
    IF Truthy(text)
    THEN JsonParse(text)
    ELSE [ok |-> TRUE, value |-> "emptyObject"]

_inferSeverity(cls) ==
    IF ~Truthy(cls) \/ cls = "Normal" THEN "Low"
    ELSE IF cls \in {"Tuberculosis", "COVID-19"} THEN "High"
    ELSE "Medium"

\* variant: the document is built without the gateway's demo_mode
ScanRecordDoc_NoDemoMode(id, patient, ai, file, at) ==
    [scanId |-> id,
     patient |-> patient,
     result |-> [predictedClass |-> ai.predicted_class,
                 confidence |-> ai.confidence,
                 severity |-> ai.severity,
                 probabilities |-> ai.probabilities,
                 affectedRegions |-> ai.affected_regions,
                 recommendations |-> ai.recommendations,
                 demoMode |-> Undefined],
     imageMeta |-> [mimetype |-> file.mimetype, sizeByes |-> file.size],
     createdAt |-> at]

\* the document handed to ScanRecord.create
ScanRecordDoc(id, patient, ai, file, at) ==
    [scanId |-> id,
     patient |-> patient,
     result |-> [predictedClass |-> ai.predicted_class,
                 confidence |-> ai.confidence,
                 severity |-> ai.severity,
                 probabilities |-> ai.probabilities,
                 affectedRegions |-> ai.affected_regions,
                 recommendations |-> ai.recommendations,
                 demoMode |-> ai.demo_mode],
     imageMeta |-> [mimetype |-> file.mimetype, sizeByes |-> file.size],
     createdAt |-> at]

\* the JSON body of the 200 answer
DiagnosisResponse(id, ai) ==
    [scanId |-> id,
     predicted_class |-> ai.predicted_class,
     confidence |-> ai.confidence,
     severity |-> JsOr(ai.severity, _inferSeverity(ai.predicted_class)),
     probabilities |-> ai.probabilities,
     affected_regions |-> ai.affected_regions,
     recommendations |-> ai.recommendations,
     demo_mode |-> JsOr(ai.demo_mode, JsFalse),
     created_at |-> "toISOString"]

ErrorBody(msg) == [error |-> msg]
NoBody == ErrorBody("none")

----------------------------------------------------------------------------
(* Server: the steps of one request *)

Answer(r, code, b) ==
    /\ status' = [status EXCEPT ![r] = code]
    /\ body' = [body EXCEPT ![r] = b]
    /\ pc' = [pc EXCEPT ![r] = "done"]

\* async function callPythonAPI: one axios.post, awaited
callPythonAPI(r) ==
    /\ gwCalls' = [gwCalls EXCEPT ![r] = @ + 1]
    /\ pc' = [pc EXCEPT ![r] = "awaitGateway"]

\* variant: the catch calls the gateway a second time before giving up
GatewayFailed_Retry(r) ==
    IF gwCalls[r] < 2
    THEN /\ callPythonAPI(r)
         /\ UNCHANGED <<status, body, aiResult, scanId, inserts, store, nextId>>
    ELSE /\ Answer(r, 502, ErrorBody("AI inference service is unavailable"))
         /\ UNCHANGED <<aiResult, scanId, gwCalls, inserts, store, nextId>>

\* variant: the rejection falls through to the outer catch
GatewayFailed_OuterCatch(r) ==
    /\ Answer(r, 500, ErrorBody("Internal server error"))
    /\ UNCHANGED <<aiResult, scanId, gwCalls, inserts, store, nextId>>

\* the catch around the gateway call: answer 502, no second attempt
GatewayFailed(r) ==
    /\ Answer(r, 502, ErrorBody("AI inference service is unavailable. Please ensure the Python API is running."))
    /\ UNCHANGED <<aiResult, scanId, gwCalls, inserts, store, nextId>>

\* variant: the insert's error is not caught where it happens
InsertFailed_Surfaces(r) ==
    /\ Answer(r, 500, ErrorBody("Internal server error"))
    /\ UNCHANGED <<store, inserts>>

\* the catch around ScanRecord.create: a warning in the log, nothing else
InsertFailed(r) ==
    /\ Answer(r, 200, DiagnosisResponse(scanId[r], aiResult[r]))
    /\ UNCHANGED <<store, inserts>>

\* The request arrives: multer, then the handler up to its first await.
DiagnoseReceive(r, in) ==
    /\ pc[r] = "idle"
    /\ input' = [input EXCEPT ![r] = in]
    /\ LET m == Multer(in.file) IN
       IF m.err # "none"
       THEN /\ Answer(r, ErrorHandler(m.code), ErrorBody(m.err))
            /\ UNCHANGED gwCalls
       ELSE IF ~in.file.present
       THEN /\ Answer(r, 400, ErrorBody("Image file is required (field name: image)"))
            /\ UNCHANGED gwCalls
       ELSE IF ~ParsePatient(in.patientData).ok
       THEN /\ Answer(r, 400, ErrorBody("patientData must be valid JSON"))
            /\ UNCHANGED gwCalls
       ELSE /\ callPythonAPI(r)
            /\ UNCHANGED <<status, body>>
    /\ UNCHANGED <<aiResult, scanId, gwErr, inserts, store, nextId, now, createdAt, apiVars>>
    /\ UNCHANGED clientVars

\* variant: the identifier of the call before is returned once more
uuidv4_Repeats == IF nextId > 1 THEN nextId - 1 ELSE nextId

\* uuidv4(): an identifier no earlier call has returned
uuidv4 == nextId

\* The gateway call settles: rejected, or resolved with response.data. On success
\* the handler draws the scanId and starts ScanRecord.create, its second await.
\* A null body throws a TypeError while the document is built (caught with the
\* insert's errors) and again while the answer is built (caught by the outer catch).
GatewayReply(r, o) ==
    /\ pc[r] = "awaitGateway"
    /\ gwErr' = [gwErr EXCEPT ![r] = o.err]
    /\ IF ~o.ok
       THEN GatewayFailed(r) /\ UNCHANGED createdAt
       ELSE /\ aiResult' = [aiResult EXCEPT ![r] = o.data]
            /\ scanId' = [scanId EXCEPT ![r] = uuidv4]
            /\ nextId' = nextId + 1
            /\ IF o.data.kind = "null"
               THEN /\ Answer(r, 500, ErrorBody("Internal server error"))
                    /\ UNCHANGED createdAt
               ELSE /\ pc' = [pc EXCEPT ![r] = "awaitInsert"]
                    /\ createdAt' = [createdAt EXCEPT ![r] = now]
                    /\ UNCHANGED <<status, body>>
            /\ UNCHANGED <<gwCalls, inserts, store>>
    /\ UNCHANGED <<input, now, apiVars>>
    /\ UNCHANGED clientVars

\* ScanRecord.create settles, and the handler answers 200 either way.
InsertSettles(r, ok) ==
    /\ pc[r] = "awaitInsert"
    /\ IF ok
       THEN /\ store' = Append(store, ScanRecordDoc(scanId[r], ParsePatient(input[r].patientData).value,
                                                    aiResult[r], input[r].file, createdAt[r]))
            /\ inserts' = [inserts EXCEPT ![r] = @ + 1]
            /\ Answer(r, 200, DiagnosisResponse(scanId[r], aiResult[r]))
       ELSE InsertFailed(r)
    /\ UNCHANGED <<input, aiResult, scanId, gwCalls, gwErr, nextId, now, createdAt, apiVars>>
    /\ UNCHANGED clientVars

----------------------------------------------------------------------------
(* Server: the ScanRecord collection *)

Min(a, b) == IF a < b THEN a ELSE b
Max(a, b) == IF a < b THEN b ELSE a

\* number of inserts and removals the collection has seen
StoreVersion == Len(store) + 2 * Cardinality(removed)

Stored(s, id) == \E i \in 1..Len(s) : s[i].scanId = id

\* scanIds of the documents at the positions idx (bookkeeping of what a query read)
Ids(s, idx) == {s[i].scanId : i \in idx}

\* variant: every matching document stays where it is
deleteOne_Keeps(s, id) == s

\* variant: when no document matches, the oldest one is removed
deleteOne_OrOldest(s, id) ==
    IF Stored(s, id) \/ s = <<>> THEN SelectSeq(s, LAMBDA rec : rec.scanId # id)
    ELSE Tail(s)

\* ScanRecord.deleteOne({ scanId }): the first matching document is removed
deleteOne(s, id) ==
    IF ~Stored(s, id) THEN s
    ELSE LET k == CHOOSE i \in 1..Len(s) :
                      s[i].scanId = id /\ \A j \in 1..(i - 1) : s[j].scanId # id
         IN  [i \in 1..(Len(s) - 1) |-> IF i < k THEN s[i] ELSE s[i + 1]]

NoDelete == [scanId |-> 0, known |-> FALSE, status |-> 0, success |-> FALSE]

\* DELETE /api/history/:scanId: one deleteOne, then { success: true } whatever
\* it removed; 500 when the database call rejects
DeleteHistory(id, ok) ==
    /\ IF ok
       THEN /\ store' = deleteOne(store, id)
            /\ removed' = IF Stored(store, id) THEN removed \cup {id} ELSE removed
            /\ del' = [scanId |-> id, known |-> Stored(store, id),
                       status |-> 200, success |-> TRUE]
       ELSE /\ del' = [scanId |-> id, known |-> Stored(store, id),
                       status |-> 500, success |-> FALSE]
            /\ UNCHANGED <<store, removed>>
    /\ UNCHANGED <<pc, input, aiResult, scanId, status, body, gwCalls, gwErr, inserts,
                   nextId, now, createdAt, hist, ana>>
    /\ UNCHANGED clientVars

\* a millisecond passes on the server's clock
Tick ==
    /\ now < MaxClock
    /\ now' = now + 1
    /\ UNCHANGED <<pc, input, aiResult, scanId, status, body, gwCalls, gwErr, inserts,
                   store, nextId, createdAt, apiVars>>
    /\ UNCHANGED clientVars

----------------------------------------------------------------------------
(* Server: GET /api/history *)

\* parseInt(text, 10) on the query texts the model sends
ParseInt(text) ==
    CASE text = "0"   -> 0
      [] text = "1"   -> 1
      [] text = "2"   -> 2
      [] text = "3"   -> 3
      [] text = "20"  -> 20
      [] text = "100" -> 100
      [] text = "101" -> 101
      [] text = "-1"  -> 0 - 1
      [] text = "-200" -> 0 - 200

\* text || fallback on a query parameter
QueryOr(text, fallback) == IF Truthy(text) THEN text ELSE fallback

\* const page = Math.max(1, parseInt(req.query.page || '1', 10))
PageOf(q) == Max(1, ParseInt(QueryOr(q.page, "1")))

\* const limit = Math.min(100, parseInt(req.query.limit || '20', 10))
LimitOf(q) == Min(100, ParseInt(QueryOr(q.limit, "20")))

\* const skip = (page - 1) * limit
SkipOf(q) == (PageOf(q) - 1) * LimitOf(q)

\* the filter object: result.predictedClass, createdAt.$gte, createdAt.$lte
Matches(rec, q) ==
    /\ Truthy(q.class) => rec.result.predictedClass = q.class
    /\ q.dateFrom.set => rec.createdAt >= q.dateFrom.at
    /\ q.dateTo.set => rec.createdAt <= q.dateTo.at

\* positions in the collection of the documents the filter selects
Matching(s, q) == {i \in 1..Len(s) : Matches(s[i], q)}

\* ScanRecord.countDocuments(filter)
countDocuments(s, q) == Cardinality(Matching(s, q))

\* the request of AllReqs that created the document, 0 for older documents
Creator(rec) ==
    IF \E r \in AllReqs : scanId[r] = rec.scanId
    THEN CHOOSE r \in AllReqs : scanId[r] = rec.scanId
    ELSE 0

\* orders in which the storage engine may hand out documents of equal sort key
TieOrders == {f \in [AllReqs -> 1..Cardinality(AllReqs)] :
                 \A a, b \in AllReqs : a # b => f[a] # f[b]}

TieKey(rec, tie) == IF Creator(rec) = 0 THEN 0 ELSE tie[Creator(rec)]

\* .sort({ createdAt: -1 }): newest first; the sort names no second key, so
\* documents with equal createdAt come in the storage engine's order
SortNewestFirst(s, idx, tie) ==
    LET Before(j, i) == \/ s[j].createdAt > s[i].createdAt
                        \/ /\ s[j].createdAt = s[i].createdAt
                           /\ TieKey(s[j], tie) < TieKey(s[i], tie)
        rank == [i \in idx |-> 1 + Cardinality({j \in idx : Before(j, i)})]
    IN  [k \in 1..Cardinality(idx) |-> s[CHOOSE i \in idx : rank[i] = k]]

\* .skip(k).limit(n) on a sorted cursor: limit 0 is no limit, a negative
\* limit is its absolute value
SkipLimit(sorted, k, n) ==
    LET last == IF n = 0 THEN Len(sorted)
                ELSE Min(Len(sorted), k + (IF n < 0 THEN 0 - n ELSE n))
    IN  IF k >= Len(sorted) THEN <<>> ELSE SubSeq(sorted, k + 1, last)

\* ScanRecord.find(filter).sort(...).skip(skip).limit(limit).lean()
find(s, q, tie) ==
    SkipLimit(SortNewestFirst(s, Matching(s, q), tie), SkipOf(q), LimitOf(q))

\* a number in a JSON body: Infinity and NaN are written as null
JsonNumber(n) == [isNull |-> FALSE, n |-> n]
JsonNull == [isNull |-> TRUE, n |-> 0]

\* Math.ceil(total / limit), as JSON.stringify writes it
PagesOf(total, limit) ==
    IF limit = 0 THEN JsonNull
    ELSE IF limit > 0 THEN JsonNumber((total + limit - 1) \div limit)
    ELSE JsonNumber(0 - (total \div (0 - limit)))

NoQuery == [page |-> Undefined, limit |-> Undefined, class |-> Undefined,
            dateFrom |-> [set |-> FALSE, at |-> 0], dateTo |-> [set |-> FALSE, at |-> 0]]

NoHistory ==
    [pc |-> "idle", query |-> NoQuery, pending |-> {}, records |-> <<>>, total |-> 0,
     seen |-> {}, counted |-> {}, removedBefore |-> {}, status |-> 0,
     body |-> [records |-> <<>>, total |-> 0, page |-> 0, limit |-> 0, pages |-> JsonNull]]

\* GET /api/analytics before its request arrives
NoAnalytics ==
    [pc |-> "idle", pending |-> {}, classDist |-> <<>>, total |-> 0, recent |-> 0,
     since |-> 0, seen |-> {}, counted |-> {}, grouped |-> {}, removedBefore |-> {},
     status |-> 0,
     body |-> [totalScans |-> 0, scansThisWeek |-> 0, classDistribution |-> <<>>]]

\* The request arrives: page, limit, skip and filter are computed and both
\* queries of the Promise.all are sent. The model follows one GET request at a
\* time (GET handlers write nothing, so they do not affect one another) and
\* forgets the answer to the one before.
HistoryReceive(q) ==
    /\ hist.pc # "reading"
    /\ ana.pc # "reading"
    /\ hist' = [NoHistory EXCEPT !.pc = "reading", !.query = q,
                                 !.pending = {"find", "countDocuments"},
                                 !.removedBefore = removed]
    /\ ana' = NoAnalytics
    /\ UNCHANGED <<pc, input, aiResult, scanId, status, body, gwCalls, gwErr, inserts,
                   store, nextId, now, createdAt, removed, del>>
    /\ UNCHANGED clientVars

\* One of the two queries is served by the database. A rejected query (a
\* negative skip, a database error) rejects the Promise.all: 500. The answer
\* goes out when the second query has resolved.
HistoryRead(op, ok, tie) ==
    /\ hist.pc = "reading"
    /\ op \in hist.pending
    /\ LET q == hist.query
           h == [hist EXCEPT !.pending = @ \ {op},
                             !.seen = @ \cup {StoreVersion},
                             !.records = IF op = "find" THEN find(store, q, tie) ELSE @,
                             !.total = IF op = "countDocuments"
                                       THEN countDocuments(store, q) ELSE @,
                             !.counted = IF op = "countDocuments"
                                         THEN Ids(store, Matching(store, q)) ELSE @]
       IN  IF ~ok \/ (op = "find" /\ SkipOf(q) < 0)
           THEN hist' = [hist EXCEPT !.pc = "done", !.pending = {}, !.status = 500]
           ELSE IF h.pending # {}
           THEN hist' = h
           ELSE hist' = [h EXCEPT !.pc = "done", !.status = 200,
                                  !.body = [records |-> h.records, total |-> h.total,
                                            page |-> PageOf(q), limit |-> LimitOf(q),
                                            pages |-> PagesOf(h.total, LimitOf(q))]]
    /\ UNCHANGED <<pc, input, aiResult, scanId, status, body, gwCalls, gwErr, inserts,
                   store, nextId, now, createdAt, removed, del, ana>>
    /\ UNCHANGED clientVars

----------------------------------------------------------------------------
(* Server: GET /api/analytics *)

\* 7 * 24 * 3600 * 1000
WeekMs == 7 * 24 * 3600 * 1000

RECURSIVE SumConfidence(_, _)
SumConfidence(s, idx) ==
    IF idx = {} THEN 0
    ELSE LET i == CHOOSE i \in idx : TRUE
         IN  s[i].result.confidence + SumConfidence(s, idx \ {i})

\* the $group stage: one group per value of result.predictedClass, with its
\* count and the mean of result.confidence (confidence is kept in percent)
GroupByClass(s) ==
    {LET members == {i \in 1..Len(s) : s[i].result.predictedClass = c}
     IN  [_id |-> c, count |-> Cardinality(members),
          sumConfidence |-> SumConfidence(s, members)] :
        c \in {s[i].result.predictedClass : i \in 1..Len(s)}}

\* the $sort stage, { count: -1 }: groups of equal count in any order
SortedByCount(groups) ==
    {sq \in [1..Cardinality(groups) -> groups] :
        /\ \A a, b \in 1..Cardinality(groups) : a # b => sq[a] # sq[b]
        /\ \A a, b \in 1..Cardinality(groups) : a < b => sq[a].count >= sq[b].count}

\* ScanRecord.aggregate([...])
aggregate(s) == SortedByCount(GroupByClass(s))

\* Math.round(d.avgConfidence * 10000) / 100, in hundredths of a percent
AvgConfidence(d) == (2 * 100 * d.sumConfidence + d.count) \div (2 * d.count)

\* variant: the class entries are built without their counts
ClassDistribution_NoCount(classDist) ==
    [k \in 1..Len(classDist) |->
        [class |-> classDist[k]._id, count |-> 0,
         avgConfidence |-> AvgConfidence(classDist[k])]]

\* classDist.map(d => ({ class, count, avgConfidence }))
ClassDistribution(classDist) ==
    [k \in 1..Len(classDist) |->
        [class |-> classDist[k]._id, count |-> classDist[k].count,
         avgConfidence |-> AvgConfidence(classDist[k])]]

\* ScanRecord.countDocuments({ createdAt: { $gte: new Date(Date.now() - week) } });
\* the bound is computed when the handler runs
countSince(s, t) == Cardinality({i \in 1..Len(s) : s[i].createdAt >= t})

\* The request arrives: the three queries of the Promise.all are sent.
AnalyticsReceive ==
    /\ ana.pc # "reading"
    /\ hist.pc # "reading"
    /\ ana' = [NoAnalytics EXCEPT !.pc = "reading", !.since = now - WeekMs,
                                  !.pending = {"aggregate", "countDocuments", "countSince"},
                                  !.removedBefore = removed]
    /\ hist' = NoHistory
    /\ UNCHANGED <<pc, input, aiResult, scanId, status, body, gwCalls, gwErr, inserts,
                   store, nextId, now, createdAt, removed, del>>
    /\ UNCHANGED clientVars

\* One of the three queries is served; the answer goes out with the last.
AnalyticsRead(op, ok) ==
    /\ ana.pc = "reading"
    /\ op \in ana.pending
    /\ \E dist \in aggregate(store) :
        LET a == [ana EXCEPT !.pending = @ \ {op},
                             !.seen = @ \cup {StoreVersion},
                             !.classDist = IF op = "aggregate" THEN dist ELSE @,
                             !.total = IF op = "countDocuments" THEN Len(store) ELSE @,
                             !.recent = IF op = "countSince"
                                        THEN countSince(store, ana.since) ELSE @,
                             !.counted = IF op = "countDocuments"
                                         THEN Ids(store, DOMAIN store) ELSE @,
                             !.grouped = IF op = "aggregate"
                                         THEN Ids(store, DOMAIN store) ELSE @]
        IN  IF ~ok
            THEN ana' = [ana EXCEPT !.pc = "done", !.pending = {}, !.status = 500]
            ELSE IF a.pending # {}
            THEN ana' = a
            ELSE ana' = [a EXCEPT !.pc = "done", !.status = 200,
                                  !.body = [totalScans |-> a.total,
                                            scansThisWeek |-> a.recent,
                                            classDistribution |->
                                                ClassDistribution(a.classDist)]]
    /\ UNCHANGED <<pc, input, aiResult, scanId, status, body, gwCalls, gwErr, inserts,
                   store, nextId, now, createdAt, removed, del, hist>>
    /\ UNCHANGED clientVars

----------------------------------------------------------------------------
(* Client: data *)

\* JavaScript null, for the state that holds a record or null
Null == [null |-> TRUE]

Routes == {"/", "/patient-details", "/upload-scan", "/processing", "/results"}

\* String.prototype.trim on the texts the model types into the form
Trim(str) == IF str \in {" ", "  "} THEN "" ELSE str

\* what a user may have typed into PatientForm when pressing Submit
Forms ==
    {[fullName |-> n, age |-> a, phone |-> ph, email |-> e, consentGiven |-> c] :
        n \in {"", " ", "Ann"}, a \in {0, 1, 120, 121}, ph \in {"", "555"},
        e \in {"", "a@b.c"}, c \in BOOLEAN}

\* files the user may pick in the file dialog
ClientFiles ==
    { [present |-> TRUE, mimetype |-> "image/png", size |-> 1024],
      [present |-> TRUE, mimetype |-> "image/png", size |-> FileSizeLimit + 1],
      [present |-> TRUE, mimetype |-> "image/png", size |-> 20 * 1024 * 1024 + 1],
      [present |-> TRUE, mimetype |-> "application/pdf", size |-> 1024],
      [present |-> TRUE, mimetype |-> "image/gif", size |-> 1024] }

\* useState initial values of ScanUploader
FreshUploader ==
    [uploadMethod |-> "null", selectedFile |-> Null, capturedImage |-> "null",
     isCameraActive |-> FALSE, stream |-> FALSE]

\* useState and useRef initial values of ProcessingAnimation
FreshProcessing ==
    [effectsPending |-> TRUE, calledRef |-> FALSE, call |-> 0,
     progress |-> 0, currentStep |-> 0, error |-> "null",
     elapsed |-> 0, progressInterval |-> FALSE, stepTimers |-> {}]

\* the durations of processingSteps, in milliseconds
processingSteps == <<1200, 2200, 1200, 800>>

\* processingSteps.reduce((s, p) => s + p.duration, 0)
totalDuration ==
    processingSteps[1] + processingSteps[2] + processingSteps[3] + processingSteps[4]

\* the delay of the timer that shows step idx (0-based): the durations before it
RECURSIVE StepDelay(_)
StepDelay(idx) == IF idx = 0 THEN 0 ELSE StepDelay(idx - 1) + processingSteps[idx]

\* the period of progressInterval, in milliseconds
TickMs == 50

\* The progress state is a fraction of a per cent; the model counts it in
\* sixths of a per cent, which is exact for every multiple of TickMs.
PerCent == 6

\* variant: the timeline is not capped
ProgressAt_Uncapped(elapsed) == (elapsed * 90 * PerCent) \div totalDuration

\* Math.min((elapsed / totalDuration) * 90, 90)
ProgressAt(elapsed) == Min((elapsed * 90 * PerCent) \div totalDuration, 90 * PerCent)

\* bodies POST /api/diagnose may answer to the client with status 200
ClientPayloads ==
    { Payload("Normal", 80, "Low", Peaked("Normal"), JsFalse),
      Payload("Pneumonia", 80, Undefined, Peaked("Pneumonia"), JsTrue) }

\* the DiagnosisResult built from the API result
ToDiagnosisResult(api) ==
    [scanId |-> api.scanId,
     disease |-> api.predicted_class,
     confidence |-> api.confidence,
     severity |-> api.severity,
     affectedRegions |-> api.affected_regions,
     recommendations |-> api.recommendations,
     probabilities |-> api.probabilities,
     heatmapUrl |-> "",
     demoMode |-> api.demo_mode]

----------------------------------------------------------------------------
(* Client: routing *)

\* navigate(path): the route's element is mounted afresh, the old one unmounted
Navigate(path) ==
    /\ route' = path
    /\ upl' = IF path = "/upload-scan"
              THEN (IF route = "/upload-scan" THEN upl ELSE FreshUploader)
              ELSE Null
    /\ proc' = IF path = "/processing"
               THEN (IF route = "/processing" THEN proc ELSE FreshProcessing)
               ELSE Null

\* no mount effect is waiting to run
Settled ==
    /\ ~(route = "/upload-scan" /\ patientData = Null)
    /\ ~(route = "/results" /\ (diagnosisResult = Null \/ patientData = Null))
    /\ ~(route = "/processing" /\ proc.effectsPending)

\* the landing page's link to the intake form
StartDiagnosis ==
    /\ Settled
    /\ route = "/"
    /\ Navigate("/patient-details")
    /\ UNCHANGED <<patientData, scanData, diagnosisResult, calls, navTimers, issued, sessionGen>>
    /\ UNCHANGED serverVars

\* the browser's Back button on the Processing page: its history entry was
\* pushed by handleAnalyze, so the entry before it is /upload-scan
BrowserBack ==
    /\ Settled
    /\ route = "/processing"
    /\ Navigate("/upload-scan")
    /\ UNCHANGED <<patientData, scanData, diagnosisResult, calls, navTimers, issued, sessionGen>>
    /\ UNCHANGED serverVars

----------------------------------------------------------------------------
(* Client: DiagnosisProvider *)

resetDiagnosis ==
    /\ patientData' = Null
    /\ scanData' = Null
    /\ diagnosisResult' = Null

----------------------------------------------------------------------------
(* Client: PatientForm *)

\* variant: the age is only checked for presence
validateForm_AnyAge(formData) ==
    /\ Trim(formData.fullName) # ""
    /\ formData.age # 0
    /\ Trim(formData.phone) # ""
    /\ Trim(formData.email) # ""
    /\ formData.consentGiven

validateForm(formData) ==
    /\ Trim(formData.fullName) # ""
    /\ ~(formData.age = 0 \/ formData.age < 1 \/ formData.age > 120)
    /\ Trim(formData.phone) # ""
    /\ Trim(formData.email) # ""
    /\ formData.consentGiven

handleSubmit(formData) ==
    /\ Settled
    /\ route = "/patient-details"
    /\ IF validateForm(formData)
       THEN /\ patientData' = formData
            /\ Navigate("/upload-scan")
       ELSE UNCHANGED <<patientData, route, upl, proc>>
    /\ UNCHANGED <<scanData, diagnosisResult, calls, navTimers, issued, sessionGen>>
    /\ UNCHANGED serverVars

----------------------------------------------------------------------------
(* Client: ScanUploader *)

\* variant: the upload page's guard leads to the landing page
UploadGuard_ToRoot ==
    /\ route = "/upload-scan"
    /\ patientData = Null
    /\ Navigate("/")
    /\ UNCHANGED <<patientData, scanData, diagnosisResult, calls, navTimers, issued, sessionGen>>
    /\ UNCHANGED serverVars

\* the mount effect: without patient data, back to the intake form
UploadGuard ==
    /\ route = "/upload-scan"
    /\ patientData = Null
    /\ Navigate("/patient-details")
    /\ UNCHANGED <<patientData, scanData, diagnosisResult, calls, navTimers, issued, sessionGen>>
    /\ UNCHANGED serverVars

\* the "Upload File" button is rendered while no upload method is chosen
handleFileSelect(file) ==
    /\ Settled
    /\ route = "/upload-scan"
    /\ upl.uploadMethod = "null"
    /\ IF file.mimetype \notin {"image/jpeg", "image/png", "image/webp", "application/pdf"}
       THEN UNCHANGED upl
       ELSE IF file.size > 20 * 1024 * 1024
       THEN UNCHANGED upl
       ELSE upl' = [upl EXCEPT !.selectedFile = file, !.uploadMethod = "file"]
    /\ UNCHANGED <<route, proc, patientData, scanData, diagnosisResult, calls, navTimers,
                   issued, sessionGen>>
    /\ UNCHANGED serverVars

\* the <video> element exists only in the camera view with the camera active
videoRef == upl.uploadMethod = "camera" /\ upl.isCameraActive

\* the "Use Camera" button is rendered while no upload method is chosen
startCamera(granted) ==
    /\ Settled
    /\ route = "/upload-scan"
    /\ upl.uploadMethod = "null"
    /\ IF ~granted
       THEN UNCHANGED upl
       ELSE IF videoRef
       THEN upl' = [upl EXCEPT !.stream = TRUE, !.isCameraActive = TRUE, !.uploadMethod = "camera"]
       ELSE upl' = [upl EXCEPT !.stream = TRUE]
    /\ UNCHANGED <<route, proc, patientData, scanData, diagnosisResult, calls, navTimers,
                   issued, sessionGen>>
    /\ UNCHANGED serverVars

\* the X of the file preview, or Cancel in the active camera view
resetUpload ==
    /\ Settled
    /\ route = "/upload-scan"
    /\ \/ upl.uploadMethod = "file" /\ upl.selectedFile # Null
       \/ upl.uploadMethod = "camera" /\ upl.isCameraActive
    /\ upl' = FreshUploader
    /\ UNCHANGED <<route, proc, patientData, scanData, diagnosisResult, calls, navTimers,
                   issued, sessionGen>>
    /\ UNCHANGED serverVars

\* variant: the button is enabled as soon as the page is shown
hasValidScan_Always == upl # Null

hasValidScan ==
    \/ upl.uploadMethod = "file" /\ upl.selectedFile # Null
    \/ upl.uploadMethod = "camera" /\ upl.capturedImage # "null"

\* "Analyze Scan", disabled unless hasValidScan
handleAnalyze ==
    /\ Settled
    /\ route = "/upload-scan"
    /\ hasValidScan
    /\ issued < MaxCalls
    /\ scanData' = [file |-> upl.selectedFile, capturedImage |-> upl.capturedImage,
                    uploadMethod |-> upl.uploadMethod]
    /\ Navigate("/processing")
    /\ UNCHANGED <<patientData, diagnosisResult, calls, navTimers, issued, sessionGen>>
    /\ UNCHANGED serverVars

\* the "Back" button of the upload page
UploadBack ==
    /\ Settled
    /\ route = "/upload-scan"
    /\ Navigate("/patient-details")
    /\ UNCHANGED <<patientData, scanData, diagnosisResult, calls, navTimers, issued, sessionGen>>
    /\ UNCHANGED serverVars

----------------------------------------------------------------------------
(* Client: ProcessingAnimation *)

\* this mounted ProcessingAnimation issued call c
Owns(c) == proc # Null /\ proc.calledRef /\ proc.call = c.id

\* variant: the orchestration effect never sends the request
ProcessingEffects_NeverCalls ==
    /\ route = "/processing"
    /\ proc.effectsPending
    /\ IF scanData = Null
       THEN Navigate("/upload-scan")
       ELSE /\ proc' = [proc EXCEPT !.effectsPending = FALSE, !.calledRef = TRUE,
                                    !.error = "No scan file available."]
            /\ UNCHANGED <<route, upl>>
    /\ UNCHANGED <<calls, issued>>
    /\ UNCHANGED <<patientData, scanData, diagnosisResult, navTimers, sessionGen>>
    /\ UNCHANGED serverVars

\* The two mount effects: without scan data, back to the upload page; else,
\* once per mount, the orchestration call (an error at once without a file).
ProcessingEffects ==
    /\ route = "/processing"
    /\ proc.effectsPending
    /\ IF scanData = Null
       THEN /\ Navigate("/upload-scan")
            /\ UNCHANGED <<calls, issued>>
       ELSE IF proc.calledRef
       THEN /\ proc' = [proc EXCEPT !.effectsPending = FALSE]
            /\ UNCHANGED <<route, upl, calls, issued>>
       ELSE IF scanData.file = Null
       THEN /\ proc' = [proc EXCEPT !.effectsPending = FALSE, !.calledRef = TRUE,
                                    !.error = "No scan file available.",
                                    !.progressInterval = FALSE, !.stepTimers = {}]
            /\ UNCHANGED <<route, upl, calls, issued>>
       ELSE /\ proc' = [proc EXCEPT !.effectsPending = FALSE, !.calledRef = TRUE,
                                    !.call = issued + 1,
                                    !.progressInterval = TRUE,
                                    !.stepTimers = 0 .. (Len(processingSteps) - 1)]
            /\ calls' = calls \cup {[id |-> issued + 1, imageFile |-> scanData.file,
                                     patient |-> patientData, gen |-> sessionGen]}
            /\ issued' = issued + 1
            /\ UNCHANGED <<route, upl>>
    /\ UNCHANGED <<patientData, scanData, diagnosisResult, navTimers, sessionGen>>
    /\ UNCHANGED serverVars

\* variant: the timer of the last step opens the results page
StepTimerFires_Navigates(idx) ==
    /\ route = "/processing"
    /\ idx \in proc.stepTimers
    /\ \A other \in proc.stepTimers : idx <= other
    /\ StepDelay(idx) <= proc.elapsed + TickMs
    /\ IF idx = Len(processingSteps) - 1
       THEN Navigate("/results")
       ELSE /\ proc' = [proc EXCEPT !.currentStep = idx, !.stepTimers = @ \ {idx}]
            /\ UNCHANGED <<route, upl>>
    /\ UNCHANGED <<patientData, scanData, diagnosisResult, calls, navTimers, issued,
                   sessionGen>>
    /\ UNCHANGED serverVars

\* A tick of progressInterval, which runs from the orchestration effect until
\* the call settles or the component unmounts. A step timer due before the
\* tick has fired before it.
ProgressTick ==
    /\ route = "/processing"
    /\ proc.progressInterval
    /\ proc.elapsed < MaxElapsed
    /\ \A idx \in proc.stepTimers : proc.elapsed + TickMs <= StepDelay(idx)
    /\ proc' = [proc EXCEPT !.elapsed = @ + TickMs,
                            !.progress = ProgressAt(proc.elapsed + TickMs)]
    /\ UNCHANGED <<route, upl, patientData, scanData, diagnosisResult, calls, navTimers,
                   issued, sessionGen>>
    /\ UNCHANGED serverVars

\* The timer of step idx fires: setCurrentStep(idx). The timers run from the
\* orchestration effect until the call settles or the component unmounts,
\* and fire in the order of their delays.
StepTimerFires(idx) ==
    /\ route = "/processing"
    /\ idx \in proc.stepTimers
    /\ \A other \in proc.stepTimers : idx <= other
    /\ StepDelay(idx) <= proc.elapsed + TickMs
    /\ proc' = [proc EXCEPT !.currentStep = idx, !.stepTimers = @ \ {idx}]
    /\ UNCHANGED <<route, upl, patientData, scanData, diagnosisResult, calls, navTimers,
                   issued, sessionGen>>
    /\ UNCHANGED serverVars

\* the continuation after `await submitDiagnosis(...)`: state setters of an
\* unmounted component do nothing, the context's setter and the timer act
OnResolved(c, api) ==
    /\ proc' = IF Owns(c)
               THEN [proc EXCEPT !.progressInterval = FALSE, !.progress = 100 * PerCent,
                                 !.stepTimers = {}]
               ELSE proc
    /\ diagnosisResult' = ToDiagnosisResult(api)
    /\ navTimers' = navTimers \cup {c.id}

\* submitDiagnosis resolves: the server took the image and answered 200
ApiResolves(c, payload) ==
    /\ c \in calls
    /\ Multer(c.imageFile).err = "none"
    /\ calls' = calls \ {c}
    /\ OnResolved(c, DiagnosisResponse(c.id, payload))
    /\ UNCHANGED <<route, upl, patientData, scanData, issued, sessionGen>>
    /\ UNCHANGED serverVars

\* submitDiagnosis rejects: no connection, or an answer that is not ok
ApiRejects(c, msg) ==
    /\ c \in calls
    /\ calls' = calls \ {c}
    /\ proc' = IF Owns(c)
               THEN [proc EXCEPT !.progressInterval = FALSE, !.error = msg,
                                 !.stepTimers = {}]
               ELSE proc
    /\ UNCHANGED <<route, upl, patientData, scanData, diagnosisResult, navTimers, issued,
                   sessionGen>>
    /\ UNCHANGED serverVars

\* setTimeout(() => navigate('/results'), 500) fires
NavTimerFires(id) ==
    /\ id \in navTimers
    /\ navTimers' = navTimers \ {id}
    /\ Navigate("/results")
    /\ UNCHANGED <<patientData, scanData, diagnosisResult, calls, issued, sessionGen>>
    /\ UNCHANGED serverVars

\* "Try Again" of the error view
TryAgain ==
    /\ Settled
    /\ route = "/processing"
    /\ proc.error # "null"
    /\ Navigate("/upload-scan")
    /\ UNCHANGED <<patientData, scanData, diagnosisResult, calls, navTimers, issued, sessionGen>>
    /\ UNCHANGED serverVars

----------------------------------------------------------------------------
(* Client: ResultsDisplay *)

\* the mount effect: without a result or patient data, to the root page
ResultsGuard ==
    /\ route = "/results"
    /\ diagnosisResult = Null \/ patientData = Null
    /\ Navigate("/")
    /\ UNCHANGED <<patientData, scanData, diagnosisResult, calls, navTimers, issued, sessionGen>>
    /\ UNCHANGED serverVars

\* "New Diagnosis"
handleNewDiagnosis ==
    /\ Settled
    /\ route = "/results"
    /\ sessionGen < MaxResets
    /\ resetDiagnosis
    /\ sessionGen' = sessionGen + 1
    /\ Navigate("/patient-details")
    /\ UNCHANGED <<calls, navTimers, issued>>
    /\ UNCHANGED serverVars

----------------------------------------------------------------------------
(* Initial state *)

\* a document written by an earlier run of the server, t milliseconds ago
OlderRecord(id, cls, t) ==
    ScanRecordDoc(id, "patientObject", Payload(cls, 80, _inferSeverity(cls), Peaked(cls), JsFalse),
                  [present |-> TRUE, mimetype |-> "image/png", size |-> 1024], 0 - t)

\* a collection of n documents written one millisecond apart
OlderStore(n) ==
    [i \in 1..n |-> OlderRecord(i, IF i % 2 = 0 THEN "Normal" ELSE "Pneumonia", n + 1 - i)]

\* the server started on a collection holding the documents of recs
ServerUp(recs) ==
    /\ pc = [r \in AllReqs |-> "idle"]
    /\ input = [r \in AllReqs |-> NoInput]
    /\ aiResult = [r \in AllReqs |-> NoPayload]
    /\ scanId = [r \in AllReqs |-> 0]
    /\ status = [r \in AllReqs |-> 0]
    /\ body = [r \in AllReqs |-> NoBody]
    /\ gwCalls = [r \in AllReqs |-> 0]
    /\ gwErr = [r \in AllReqs |-> "none"]
    /\ inserts = [r \in AllReqs |-> 0]
    /\ store = recs
    /\ nextId = Len(recs) + 1
    /\ now = 0
    /\ createdAt = [r \in AllReqs |-> 0]
    /\ removed = {}
    /\ del = NoDelete
    /\ hist = NoHistory
    /\ ana = NoAnalytics

\* the server started on an empty collection
ServerInit == ServerUp(<<>>)

\* the application loaded at `path`: empty context, the route's element mounted
ClientLoad(path) ==
    /\ route = path
    /\ patientData = Null
    /\ scanData = Null
    /\ diagnosisResult = Null
    /\ upl = IF path = "/upload-scan" THEN FreshUploader ELSE Null
    /\ proc = IF path = "/processing" THEN FreshProcessing ELSE Null
    /\ calls = {}
    /\ navTimers = {}
    /\ issued = 0
    /\ sessionGen = 0

\* the server started, the application loaded at the root page
Init == ServerInit /\ ClientLoad("/")

\* the application loaded at any of its routes (a link, a reload)
ClientInit == ServerInit /\ \E path \in Routes : ClientLoad(path)

----------------------------------------------------------------------------
(* Specifications of the server *)

\* requests that pass multer and the handler's checks
ValidInputs ==
    {in \in AllInputs : /\ in.file.present
                        /\ in.file.mimetype = "image/png"
                        /\ in.file.size = FileSizeLimit
                        /\ in.patientData \in {PatientObjectText, Undefined}}

\* one outcome of each kind
SomeOutcomes ==
    { Reject("ECONNREFUSED"),
      Resolve(Payload("Pneumonia", 80, "Medium", Peaked("Pneumonia"), JsFalse)),
      Resolve(Payload(Undefined, 80, "Medium", Peaked("Pneumonia"), JsFalse)) }

\* Every gateway outcome, for requests that pass validation.
Next ==
    \E r \in Reqs :
        \/ \E in \in ValidInputs : DiagnoseReceive(r, in)
        \/ \E o \in AllOutcomes : GatewayReply(r, o)
        \/ \E ok \in BOOLEAN : InsertSettles(r, ok)

Spec == Init /\ [][Next]_vars

\* Every request, with one gateway outcome of each kind.
IntakeNext ==
    \E r \in Reqs :
        \/ \E in \in AllInputs : DiagnoseReceive(r, in)
        \/ \E o \in SomeOutcomes : GatewayReply(r, o)
        \/ \E ok \in BOOLEAN : InsertSettles(r, ok)

SpecIntake == Init /\ [][IntakeNext]_vars

----------------------------------------------------------------------------
(* Specifications of the record store and its endpoints *)

\* the request the client sends: a PNG within the limit, the intake as JSON
StoreInput ==
    [file |-> [present |-> TRUE, mimetype |-> "image/png", size |-> 1024],
     patientData |-> PatientObjectText]

\* the gateway down, a full body, a body without severity and demo_mode
StoreOutcomes ==
    { Reject("ECONNREFUSED"),
      Resolve(Payload("Pneumonia", 80, "Medium", Peaked("Pneumonia"), JsTrue)),
      Resolve(Payload("Normal", 80, Undefined, Peaked("Normal"), Undefined)) }

Unset == [set |-> FALSE, at |-> 0]
Date(t) == [set |-> TRUE, at |-> t]

\* query strings of GET /api/history
StoreQueries ==
    {[page |-> p, limit |-> l, class |-> c, dateFrom |-> df, dateTo |-> dt] :
        p \in {Undefined, "2"}, l \in {"1", "0", "-1"}, c \in {Undefined, "Normal"},
        df \in {Unset}, dt \in {Unset, Date(0)}}

\* identifiers a client may name in DELETE: those drawn so far and one not drawn yet
DeleteIds == 1..nextId

\* requests of POST /api/diagnose running concurrently
Diagnose(reqs, outcomes, settled) ==
    \E r \in reqs :
        \/ DiagnoseReceive(r, StoreInput)
        \/ \E o \in outcomes : GatewayReply(r, o)
        \/ \E ok \in settled : InsertSettles(r, ok)

\* Concurrent diagnose and delete requests on one collection.
StoreNext ==
    \/ Diagnose(Posts, StoreOutcomes, BOOLEAN)
    \/ \E id \in DeleteIds, ok \in BOOLEAN : DeleteHistory(id, ok)

SpecStore == Init /\ [][StoreNext]_vars

\* Diagnose requests and history queries, with the clock running.
HistoryNext ==
    \/ Diagnose(Posts, StoreOutcomes \ {Reject("ECONNREFUSED")}, BOOLEAN)
    \/ Tick
    \/ \E q \in StoreQueries : HistoryReceive(q)
    \/ \E op \in {"find", "countDocuments"}, ok \in BOOLEAN, tie \in TieOrders :
           HistoryRead(op, ok, tie)

SpecHistory == Init /\ [][HistoryNext]_vars

\* the collection the readers start on: one Pneumonia record
ReadersStore == OlderStore(1)

ReadersInit == ServerUp(ReadersStore) /\ ClientLoad("/")

\* Diagnose and delete requests, with history and analytics queries.
ReadersNext ==
    \/ Diagnose(Reqs, StoreOutcomes \ {Reject("ECONNREFUSED")}, {TRUE})
    \/ \E id \in DeleteIds : DeleteHistory(id, TRUE)
    \/ HistoryReceive([NoQuery EXCEPT !.class = "Pneumonia"])
    \/ \E op \in {"find", "countDocuments"} : HistoryRead(op, TRUE, [r \in AllReqs |-> r])
    \/ AnalyticsReceive
    \/ \E op \in {"aggregate", "countDocuments", "countSince"} : AnalyticsRead(op, TRUE)

SpecReaders == ReadersInit /\ [][ReadersNext]_vars

\* number of documents in the collection the history endpoint is queried on
BulkSize == 101

\* query strings with the limit absent, 0, negative, at and above 100
BulkQueries ==
    {[NoQuery EXCEPT !.page = p, !.limit = l, !.class = c] :
        p \in {Undefined, "2"}, l \in {Undefined, "0", "-200", "100", "101"},
        c \in {Undefined}}

\* the server started on a collection of BulkSize documents
BulkInit == ServerUp(OlderStore(BulkSize)) /\ ClientLoad("/")

\* History queries and deletes on a collection of more than 100 documents.
BulkNext ==
    \/ \E q \in BulkQueries : HistoryReceive(q)
    \/ \E op \in {"find", "countDocuments"}, ok \in BOOLEAN :
           HistoryRead(op, ok, [r \in AllReqs |-> r])
    \/ DeleteHistory(BulkSize, TRUE)

SpecBulk == BulkInit /\ [][BulkNext]_vars

----------------------------------------------------------------------------
(* Claims about POST /api/diagnose *)

Answered(r) == pc[r] = "done"

AcceptedType(f) == f.mimetype \in {"image/jpeg", "image/png", "image/webp"}

\* request r made no gateway call and put no record in the store
NoSideEffects(r) ==
    /\ gwCalls[r] = 0
    /\ inserts[r] = 0
    /\ \A i \in 1..Len(store) : store[i].scanId # scanId[r]

C3_BadMediaTypeIs400 ==
    \A r \in Reqs :
        (Answered(r) /\ input[r].file.present /\ ~AcceptedType(input[r].file))
            => status[r] = 400 /\ NoSideEffects(r)

\* a request that passes input validation: an image of an accepted type within
\* the size limit, and patientData absent, empty or parseable
PassesValidation(in) ==
    /\ in.file.present
    /\ AcceptedType(in.file)
    /\ in.file.size <= MAX_MB * 1024 * 1024
    /\ in.patientData # BrokenJsonText

\* C4: a request never makes more than one gateway call; once received it has
\* made exactly one if it passes input validation and none otherwise, also after
\* the call has failed.
C4_OneGatewayCall ==
    \A r \in Reqs :
        /\ gwCalls[r] <= 1
        /\ pc[r] # "idle" =>
              gwCalls[r] = (IF PassesValidation(input[r]) THEN 1 ELSE 0)

C4_Witness ==
    \E r \in Reqs : Answered(r) /\ gwErr[r] # "none" /\ gwCalls[r] = 1

\* C5: a request whose gateway call was rejected (connection error, timeout, error
\* status) is answered 502 and has put no record in the store.
C5_UpstreamUnavailable ==
    \A r \in Reqs :
        gwErr[r] \in {"ECONNREFUSED", "ECONNABORTED", "ERR_BAD_RESPONSE"} =>
            /\ Answered(r)
            /\ status[r] = 502
            /\ inserts[r] = 0
            /\ scanId[r] = 0
            /\ \A i \in 1..Len(store) : store[i].scanId # scanId[r]

C5_Witness ==
    \E r \in Reqs : gwErr[r] = "ECONNABORTED" /\ status[r] = 502 /\ store = <<>>

\* the gateway call of r resolved with a body
Resolved(r) == aiResult[r].kind # "none"

\* C6: a request whose gateway call resolved with a malformed payload is answered
\* 502 and persists no ScanRecord.
C6_MalformedIs502 ==
    \A r \in Reqs :
        (Answered(r) /\ Resolved(r) /\ ~WellFormed(aiResult[r]))
            => status[r] = 502 /\ inserts[r] = 0

\* the 200 body carries every field of a DiagnosisResponse
CompleteResponse(b, r) ==
    /\ b.scanId = scanId[r] /\ b.scanId # 0
    /\ b.predicted_class = aiResult[r].predicted_class
    /\ b.predicted_class \in Classes
    /\ b.confidence = aiResult[r].confidence
    /\ b.severity \in Severities
    /\ b.probabilities = aiResult[r].probabilities
    /\ DOMAIN b.probabilities = Classes
    /\ b.affected_regions = aiResult[r].affected_regions
    /\ b.recommendations = aiResult[r].recommendations
    /\ Len(b.recommendations) > 0
    /\ b.demo_mode \in {JsTrue, JsFalse}
    /\ b.created_at # Undefined

\* C7: a request whose inference succeeded and whose insert failed is answered 200
\* with the complete DiagnosisResponse.
C7_PersistenceFailureSwallowed ==
    \A r \in Reqs :
        (Answered(r) /\ Resolved(r) /\ WellFormed(aiResult[r]) /\ inserts[r] = 0)
            => status[r] = 200 /\ CompleteResponse(body[r], r)

C7_Witness ==
    \E r \in Reqs :
        /\ Answered(r) /\ WellFormed(aiResult[r]) /\ inserts[r] = 0
        /\ aiResult[r].severity = Undefined /\ aiResult[r].demo_mode = Undefined
        /\ status[r] = 200

\* C8: in every 200 answer, class Normal goes with severity Low and the classes
\* Tuberculosis and COVID-19 go with severity High.
C8_SeverityFollowsClass ==
    \A r \in Reqs : status[r] = 200 =>
        /\ body[r].predicted_class = "Normal" => body[r].severity = "Low"
        /\ body[r].predicted_class \in {"Tuberculosis", "COVID-19"} => body[r].severity = "High"

\* C9: in every 200 answer, predicted_class is a key of probabilities and no key
\* has a greater probability.
C9_PredictedIsMaximum ==
    \A r \in Reqs : status[r] = 200 =>
        LET p == body[r].probabilities IN
        /\ body[r].predicted_class \in DOMAIN p
        /\ \A k \in DOMAIN p : p[k] <= p[body[r].predicted_class]

\* C10: a request whose gateway call resolved with a well-formed body carrying
\* demo_mode = true is answered 200 with demo_mode = true, and the record it
\* persisted, if its insert succeeded, carries demoMode = true.
C10_DemoModeSucceeds ==
    \A r \in Reqs :
        (Answered(r) /\ WellFormed(aiResult[r]) /\ aiResult[r].demo_mode = JsTrue) =>
            /\ status[r] = 200
            /\ body[r].demo_mode = JsTrue
            /\ inserts[r] = 1 =>
                  /\ \E i \in 1..Len(store) : store[i].scanId = scanId[r]
                  /\ \A i \in 1..Len(store) :
                        store[i].scanId = scanId[r] => store[i].result.demoMode = JsTrue

C10_Witness ==
    \E r \in Reqs :
        /\ Answered(r) /\ WellFormed(aiResult[r]) /\ aiResult[r].demo_mode = JsTrue
        /\ inserts[r] = 1
        /\ \E i \in 1..Len(store) : store[i].result.demoMode = JsTrue

----------------------------------------------------------------------------
(* Specification of the client workflow *)

ClientNext ==
    \/ StartDiagnosis
    \/ BrowserBack
    \/ \E formData \in Forms : handleSubmit(formData)
    \/ UploadGuard
    \/ \E file \in ClientFiles : handleFileSelect(file)
    \/ \E granted \in BOOLEAN : startCamera(granted)
    \/ resetUpload
    \/ handleAnalyze
    \/ UploadBack
    \/ ProcessingEffects
    \/ \E c \in calls, payload \in ClientPayloads : ApiResolves(c, payload)
    \/ \E c \in calls, msg \in {"Failed to fetch", "AI inference service is unavailable."} :
           ApiRejects(c, msg)
    \/ \E id \in navTimers : NavTimerFires(id)
    \/ TryAgain
    \/ ResultsGuard
    \/ handleNewDiagnosis

SpecClient == ClientInit /\ [][ClientNext]_vars

\* the client with the timers of the processing animation
VisitNext ==
    \/ ClientNext
    \/ ProgressTick
    \/ \E idx \in 0 .. (Len(processingSteps) - 1) : StepTimerFires(idx)

SpecVisit == ClientInit /\ [][VisitNext]_vars

----------------------------------------------------------------------------
(* Claims about the client workflow *)

\* C1: when a call issued before the last reset of the session resolves
\* successfully, diagnosisResult, patientData and scanData stay as they are and
\* no navigation to /results is scheduled.
C1_StaleCompletionIgnored ==
    [][\A c \in calls :
          (c \notin calls' /\ c.gen < sessionGen)
          => /\ diagnosisResult' = diagnosisResult
             /\ patientData' = patientData
             /\ scanData' = scanData
             /\ navTimers' = navTimers]_vars

----------------------------------------------------------------------------
(* Claims about the record store *)

\* number of documents of s carrying the identifier id
CountOf(s, id) == Cardinality({i \in 1..Len(s) : s[i].scanId = id})

\* C11: under every interleaving of diagnose and delete requests, a request
\* whose insert succeeded (it is answered 200) has put exactly one record in
\* the collection, stored still or deleted since; a request that failed or whose
\* insert failed has put none; no two stored records carry the same scanId.
C11_OneRecordPerInsert ==
    /\ \A r \in AllReqs :
        /\ inserts[r] <= 1
        /\ (Answered(r) /\ inserts[r] = 1) => status[r] = 200
        /\ (Answered(r) /\ status[r] = 200 /\ inserts[r] = 1)
              => CountOf(store, scanId[r]) + (IF scanId[r] \in removed THEN 1 ELSE 0) = 1
        /\ (status[r] # 200 \/ inserts[r] = 0)
              => CountOf(store, scanId[r]) = 0 /\ scanId[r] \notin removed
    /\ \A i, j \in 1..Len(store) : i # j => store[i].scanId # store[j].scanId
    /\ Len(store) + Cardinality(removed)
          = Cardinality({r \in AllReqs : inserts[r] = 1})

C11_Witness ==
    \E r1, r2 \in Posts :
        /\ r1 # r2
        /\ status[r1] = 200 /\ inserts[r1] = 1 /\ scanId[r1] \in removed
        /\ status[r2] = 200 /\ inserts[r2] = 1 /\ Stored(store, scanId[r2])
        /\ \E r3 \in Posts : r3 # r1 /\ Answered(r3)

\* C12: the record a request has persisted carries the scanId of its answer, and
\* predictedClass, confidence, severity, probabilities, affectedRegions,
\* recommendations and demoMode equal to the fields of the same name of the
\* answer, also when the gateway sent no severity or no demo_mode.
C12_RecordEqualsResponse ==
    \A r \in AllReqs : (status[r] = 200 /\ inserts[r] = 1) =>
        \A i \in 1..Len(store) : store[i].scanId = scanId[r] =>
            /\ body[r].scanId = store[i].scanId
            /\ store[i].result.predictedClass = body[r].predicted_class
            /\ store[i].result.confidence = body[r].confidence
            /\ store[i].result.severity = body[r].severity
            /\ store[i].result.probabilities = body[r].probabilities
            /\ store[i].result.affectedRegions = body[r].affected_regions
            /\ store[i].result.recommendations = body[r].recommendations
            /\ store[i].result.demoMode = body[r].demo_mode

\* C14: a DELETE for a scanId that identifies no stored record is answered 404
\* (the database working), never { success: true }.
C14_UnknownIdIs404 ==
    (del.status \notin {0, 500} /\ ~del.known) => (del.status = 404 /\ ~del.success)

\* C15: a DELETE for a scanId that identifies no stored record leaves the
\* collection as it is; after a DELETE the database has served, the scanId
\* identifies no stored record and deleting it once more changes nothing.
C15_DeleteIdempotent ==
    [][\A id \in DeleteIds, ok \in BOOLEAN :
          DeleteHistory(id, ok) =>
              /\ ~Stored(store, id) => store' = store
              /\ ok => (~Stored(store', id) /\ deleteOne(store', id) = store')]_vars

C15_Witness ==
    /\ del.status = 200
    /\ ~del.known
    /\ del.scanId \in removed
    /\ Len(store) >= 1

\* the documents of s that do not carry the identifier id, in their order
Others(s, id) == SelectSeq(s, LAMBDA rec : rec.scanId # id)

RECURSIVE SumCounts(_)
SumCounts(dist) == IF dist = <<>> THEN 0 ELSE Head(dist).count + SumCounts(Tail(dist))

\* C13: once a DELETE for the scanId of a stored record has been answered, no
\* GET /api/history that arrives later returns or counts that record, and no
\* GET /api/analytics that arrives later counts it in totalScans or in a class
\* count; the DELETE removes that record and leaves every other record, and
\* their order, as they were.
C13_DeletedRecordGone ==
    /\ [](/\ hist.status = 200 =>
               /\ \A k \in 1..Len(hist.body.records) :
                     hist.body.records[k].scanId \notin hist.removedBefore
               /\ hist.counted \cap hist.removedBefore = {}
               /\ hist.body.total = Cardinality(hist.counted)
          /\ ana.status = 200 =>
               /\ ana.counted \cap ana.removedBefore = {}
               /\ ana.grouped \cap ana.removedBefore = {}
               /\ ana.body.totalScans = Cardinality(ana.counted)
               /\ SumCounts(ana.body.classDistribution) = Cardinality(ana.grouped))
    /\ [][\A id \in DeleteIds :
             (DeleteHistory(id, TRUE) /\ Stored(store, id)) =>
                 /\ ~Stored(store', id)
                 /\ Others(store', id) = Others(store, id)]_vars

C13_Witness ==
    /\ hist.status = 200
    /\ hist.removedBefore # {}
    /\ Len(hist.body.records) = 1
    /\ hist.body.total = 1
    /\ \E r \in Reqs : /\ scanId[r] \in hist.removedBefore
                       /\ aiResult[r].predicted_class = hist.query.class

\* C19: a GET /api/analytics answer whose three queries read the same, unmodified
\* collection has totalScans equal to the number of stored records, one entry per
\* predicted class among them with count equal to the number of records of that
\* class, and counts that sum to totalScans.
C19_AnalyticsSumsToTotal ==
    [][(ana.pc = "reading" /\ ana'.status = 200 /\ Cardinality(ana'.seen) = 1) =>
          LET dist == ana'.body.classDistribution IN
          /\ ana'.body.totalScans = Len(store)
          /\ SumCounts(dist) = ana'.body.totalScans
          /\ \A k \in 1..Len(dist) :
                dist[k].count = Cardinality({i \in 1..Len(store) :
                                                store[i].result.predictedClass = dist[k].class})
          /\ \A i \in 1..Len(store) :
                \E k \in 1..Len(dist) : dist[k].class = store[i].result.predictedClass
          /\ \A k, l \in 1..Len(dist) : k # l => dist[k].class # dist[l].class]_vars

C19_Witness ==
    /\ ana.status = 200
    /\ Cardinality(ana.seen) = 1
    /\ Len(ana.body.classDistribution) = 2
    /\ ana.body.totalScans = 2
    /\ \E r \in Reqs : inserts[r] = 1 /\ Stored(store, scanId[r])

----------------------------------------------------------------------------
(* Claims about GET /api/history *)

\* the documents at the positions idx, newest first, documents of equal
\* createdAt in the order of their insertion
NewestFirst(s, idx) ==
    LET Before(j, i) == \/ s[j].createdAt > s[i].createdAt
                        \/ (s[j].createdAt = s[i].createdAt /\ j < i)
        place == [i \in idx |-> 1 + Cardinality({j \in idx : Before(j, i)})]
    IN  [k \in 1..Cardinality(idx) |-> s[CHOOSE i \in idx : place[i] = k]]

\* positions (p - 1) * sz + 1 .. min(p * sz, total) of the matching documents
ExpectedPage(s, q, p, sz) ==
    LET m == NewestFirst(s, Matching(s, q))
    IN  IF (p - 1) * sz >= Len(m) THEN <<>>
        ELSE SubSeq(m, (p - 1) * sz + 1, Min(p * sz, Len(m)))

\* the page and limit parameters as sent, with the defaults for absent ones
SentPage(q) == ParseInt(QueryOr(q.page, "1"))
SentLimit(q) == ParseInt(QueryOr(q.limit, "20"))

\* C16: an answer of GET /api/history to a request with page p >= 1 and limit s
\* in 1..100, its queries reading an unmodified collection, holds the records at
\* positions (p-1)*s+1 .. min(p*s, total) of the matching records ordered newest
\* first by createdAt, records of equal createdAt in insertion order.
C16_PageIsSliceNewestFirst ==
    [][(/\ hist.pc = "reading" /\ hist'.status = 200
        /\ Cardinality(hist'.seen) = 1
        /\ SentPage(hist.query) >= 1
        /\ SentLimit(hist.query) \in 1..100)
          => hist'.body.records
                = ExpectedPage(store, hist.query, SentPage(hist.query), SentLimit(hist.query))]_vars

\* C17: every answer of GET /api/history has pages a number (not null), not
\* negative, and equal to ceil(total / limit), total being the number of stored
\* records the filter matches, whatever page and limit the request carried.
C17_PagesIsCeiling ==
    hist.status = 200 =>
        LET b == hist.body IN
        /\ b.total = Cardinality(hist.counted)
        /\ ~b.pages.isNull
        /\ b.pages.n >= 0
        /\ b.limit > 0
        /\ b.pages.n * b.limit >= b.total
        /\ (b.pages.n - 1) * b.limit < b.total

\* C18: no answer of GET /api/history holds more than 100 records, whatever the
\* limit parameter: absent, 0, negative, above 100.
C18_AtMost100Records ==
    hist.status = 200 => Len(hist.body.records) <= 100

----------------------------------------------------------------------------
(* Claims about the intake form *)

\* a text with nothing but white space in it
Blank(str) == str \in {"", " ", "  "}

\* an intake with name, phone and email filled in, age in 1..120, consent given
CompleteIntake(d) ==
    /\ ~Blank(d.fullName) /\ ~Blank(d.phone) /\ ~Blank(d.email)
    /\ d.age \in 1..120
    /\ d.consentGiven = TRUE

\* C20: patientData is null or a complete intake; it becomes non-null (or
\* changes to another non-null value) only by a submission on the intake page of
\* a complete intake; a submission of an incomplete intake leaves patientData as
\* it was and the route at the intake page.
C20_IntakeGate ==
    /\ [](patientData # Null => CompleteIntake(patientData))
    /\ [][/\ (patientData' # Null /\ patientData' # patientData)
                => (route = "/patient-details" /\ CompleteIntake(patientData'))
          /\ \A formData \in Forms :
                (handleSubmit(formData) /\ ~CompleteIntake(formData))
                    => (patientData' = patientData /\ route' = "/patient-details")]_vars

C20_Witness ==
    /\ patientData # Null
    /\ patientData.age = 120
    /\ route = "/upload-scan"

\* A timer set with setTimeout fires: the navigation timer of line 432 is
\* never cleared, not even when the component unmounts.
SpecVisitLive ==
    /\ ClientInit
    /\ [][VisitNext]_vars
    /\ WF_vars(\E id \in navTimers : NavTimerFires(id))

----------------------------------------------------------------------------
(* Claims about the stages of the workflow *)

\* a step that changes the page and is not the firing of a navigation timer
Leaves == route' # route /\ navTimers' = navTimers

Visiting == route = "/processing" /\ proc # Null

\* the orchestration call of the mounted ProcessingAnimation is in flight
CallUnresolved == Visiting /\ \E c \in calls : Owns(c)

\* C22: during a Processing visit the progress is at most 90 per cent while
\* the orchestration call is unresolved; it is 100 per cent only after that
\* call resolved successfully, and a tick of the progress timer never sets
\* it to 100 per cent.
C22_ProgressBelowTerminal ==
    /\ [](CallUnresolved => proc.progress <= 90 * PerCent)
    /\ [](Visiting => (proc.progress <= 90 * PerCent \/ proc.progress = 100 * PerCent))
    /\ []((Visiting /\ proc.progress = 100 * PerCent)
            => (proc.call \in navTimers /\ diagnosisResult # Null /\ ~CallUnresolved))
    /\ [][/\ (Visiting /\ route' = "/processing" /\ proc'.elapsed # proc.elapsed)
                => (proc'.progress <= 90 * PerCent /\ proc'.progress >= proc.progress)
          /\ (Visiting /\ route' = "/processing" /\ proc'.progress = 100 * PerCent
                /\ proc.progress # 100 * PerCent)
                => (\E c \in calls : Owns(c) /\ c \notin calls' /\ c.id \in navTimers'
                                     /\ proc'.elapsed = proc.elapsed)]_vars

\* the timeline has run out and the call is still unresolved
C22_Witness ==
    /\ CallUnresolved
    /\ proc.elapsed > totalDuration
    /\ proc.progress = 90 * PerCent

\* the orchestration call of the mounted ProcessingAnimation has resolved
ResolvedHere == Visiting /\ proc.progress = 100 * PerCent

\* the results page with its data
ResultsShown == route = "/results" /\ diagnosisResult # Null /\ patientData # Null

\* C23: once the orchestration call of the current Processing visit has
\* resolved successfully, the workflow eventually shows Results with
\* diagnosisResult set, wherever the progress and step timers stand; a step
\* from Processing to Results is always the firing of a navigation timer set
\* by a resolved call, and a progress tick or step timer changes no page.
C23_ResolutionLeadsToResults ==
    /\ ResolvedHere ~> ResultsShown
    /\ [][/\ (route = "/processing" /\ route' = "/results")
                => (\E id \in navTimers : navTimers' = navTimers \ {id})
          /\ (Visiting /\ route' = "/processing" /\ proc' # proc
                /\ (proc'.elapsed # proc.elapsed \/ proc'.currentStep # proc.currentStep))
                => UNCHANGED <<navTimers, diagnosisResult>>
          /\ (ProgressTick \/ \E idx \in 0 .. 3 : StepTimerFires(idx))
                => UNCHANGED <<route, navTimers, diagnosisResult>>]_vars

\* the call resolved while the animation was in its second step
C23_Witness ==
    /\ ResolvedHere
    /\ proc.currentStep = 1
    /\ proc.elapsed < totalDuration
    /\ proc.call \in navTimers

----------------------------------------------------------------------------
(* Claims about the derived severity *)

\* the mapping from class to severity: Normal is Low, Tuberculosis and
\* COVID-19 are High, every other class is Medium
SeverityOf(cls) ==
    IF cls = "Normal" THEN "Low"
    ELSE IF cls \in {"Tuberculosis", "COVID-19"} THEN "High"
    ELSE "Medium"

\* C24: when the gateway supplied no severity, the severity of the 200 answer
\* is the one the mapping gives for the answer's predicted_class.
C24_SeverityDerived ==
    \A r \in Reqs :
        (status[r] = 200 /\ ~Truthy(aiResult[r].severity))
            => body[r].severity = SeverityOf(body[r].predicted_class)

----------------------------------------------------------------------------
(* Claims about analytics next to writers *)

\* C25: every GET /api/analytics answer, also one whose queries ran while
\* diagnose requests inserted and DELETE requests removed records, has class
\* counts that sum to its totalScans and a scansThisWeek of at most its
\* totalScans.
C25_AnalyticsConsistent ==
    ana.status = 200 =>
        /\ SumCounts(ana.body.classDistribution) = ana.body.totalScans
        /\ ana.body.scansThisWeek <= ana.body.totalScans

----------------------------------------------------------------------------
(* Claims about a failed orchestration call *)

\* the error view of the mounted ProcessingAnimation is shown
ErrorShown == Visiting /\ proc.error # "null"

\* C26: when the orchestration call of a Processing visit fails, the error
\* is shown; from then on the page stays Processing with diagnosisResult as
\* it was and without a further call, until the user goes back to Upload;
\* a visit issues at most one call.
C26_FailureStaysInProcessing ==
    [][/\ \A c \in calls :
            (Visiting /\ Owns(c) /\ c \notin calls' /\ navTimers' = navTimers)
                => (ErrorShown' /\ diagnosisResult' = diagnosisResult)
       /\ ErrorShown
            => /\ issued' = issued
               /\ \/ ErrorShown' /\ proc'.error = proc.error
                                 /\ diagnosisResult' = diagnosisResult
                  \/ route' = "/upload-scan"
       /\ (Visiting /\ issued' # issued) => ~proc.calledRef]_vars

----------------------------------------------------------------------------
(* Claims about the scan payload *)

\* the source the upload method names is present
SourceMatches(sd) ==
    \/ sd.uploadMethod = "file" /\ sd.file # Null
    \/ sd.uploadMethod = "camera" /\ sd.capturedImage # "null"

\* C27: a ScanPayload in the session never holds both an uploaded file and a
\* captured image, and neither does the upload page's state; a payload is
\* stored only by Analyze on the upload page, from a state in which the
\* source of the chosen upload method is present.
C27_OneSource ==
    /\ [](scanData # Null
            => /\ ~(scanData.file # Null /\ scanData.capturedImage # "null")
               /\ SourceMatches(scanData))
    /\ [](upl # Null => ~(upl.selectedFile # Null /\ upl.capturedImage # "null"))
    /\ [][(scanData' # scanData /\ scanData' # Null)
            => /\ route = "/upload-scan" /\ route' = "/processing"
               /\ hasValidScan
               /\ scanData'.uploadMethod = upl.uploadMethod
               /\ scanData'.file = upl.selectedFile
               /\ scanData'.capturedImage = upl.capturedImage]_vars

\* the payload stored by a second Analyze, its visit about to start
C27_Witness ==
    /\ route = "/processing"
    /\ scanData # Null
    /\ scanData.uploadMethod = "file"
    /\ scanData.file # Null
    /\ issued = 1
    /\ proc.effectsPending

\* C28: a file the upload page accepted (media type and size check of
\* handleFileSelect) passes the server's multer filter and size limit.
C28_ClientAcceptsSubset ==
    (upl # Null /\ upl.selectedFile # Null) => Multer(upl.selectedFile).err = "none"

\* the orchestration effect of the mounted ProcessingAnimation has run
EffectsRan == Visiting /\ ~proc.effectsPending

----------------------------------------------------------------------------
(* Claims about the result and its payload *)

\* call c was issued for the payload and intake the session holds now
ForSession(c) ==
    /\ c.gen = sessionGen
    /\ scanData # Null /\ c.imageFile = scanData.file
    /\ patientData # Null /\ c.patient = patientData

\* C30: a diagnosisResult in the session is the result of the call issued
\* for the session's present ScanPayload and PatientIntake: a result is set
\* only by a call issued for them, and it does not outlive them.
C30_ResultOfCurrentPayload ==
    [][/\ (diagnosisResult' # Null /\ diagnosisResult' # diagnosisResult)
            => \E c \in calls : c \notin calls' /\ ForSession(c)
       /\ (diagnosisResult # Null /\ diagnosisResult' = diagnosisResult)
            => (scanData' = scanData /\ patientData' = patientData)]_vars

====
